---- MODULE Spec2Model ----
(***************************************************************************)
(* A model of gridworld_data.py: the example generator, the dataset        *)
(* assembler, the IRL orchestrator and the save/load pair, as one          *)
(* sequential interpreter.  A client makes API calls one after another;    *)
(* every call runs as a chain of frames (save_dataset ->                   *)
(* generate_gridworld_irl -> generate_gridworld_data ->                    *)
(* generate_n_examples -> generate_example), one action per step between   *)
(* two calls into a collaborator (the gridworld module, the agents module, *)
(* numpy).  No function of the file catches an exception, so a raise       *)
(* unwinds every frame at once.                                            *)
(*                                                                         *)
(* A distribution over n actions holds its masses as integers in units of  *)
(* 1/n; the distance threshold is a fraction [num, den].                   *)
(***************************************************************************)
EXTENDS Integers, Sequences, FiniteSets, TLC

\* ------------------------------------------------------------------ bounds
MaxExamples == 2      \* largest num_train / num_test / num_mdps / n tried
MaxStateBatch == 1    \* largest config.statebatchsize tried
MaxLength == 2        \* largest expected_length of a direct generate_example call

\* ------------------------------------------------------------- plain data
NoneValue == "None"

ValidKinds == {"optimal", "naive", "sophisticated", "myopic"}

AgentLabels == ValidKinds \cup {"random"}

AgentClass(label) ==
    CASE label = "optimal" -> "OptimalAgent"
      [] label = "naive" -> "NaiveTimeDiscountingAgent"
      [] label = "sophisticated" -> "SophisticatedTimeDiscountingAgent"
      [] label = "myopic" -> "MyopicAgent"
      [] OTHER -> NoneValue

\* What create_agent does with a label nothing above matches: it raises.
UnknownLabelFallsBack == [raised |-> FALSE, cls |-> "OptimalAgent"]

UnknownLabel == [raised |-> TRUE, cls |-> NoneValue]

\* create_agent: the class built for a label, or the ValueError.
CreateAgent(label) ==
    IF label \in ValidKinds
    THEN [raised |-> FALSE, cls |-> AgentClass(label)]
    ELSE UnknownLabel

\* A freshly constructed agent: bound to no MDP (0), nothing planned.
NewAgent(cls, params) ==
    [cls |-> cls, params |-> params, mdp |-> 0, policy |-> {}]

\* The cells mdp.get_random_start_state() can return: (x, y) in [0, imsize)^2.
Cells(imsize) == (0 .. imsize - 1) \X (0 .. imsize - 1)

\* Distributions over the actions numbered 0 .. n-1, in units of 1/n.
RECURSIVE SumTo(_, _)
SumTo(f, n) == IF n < 0 THEN 0 ELSE f[n] + SumTo(f, n - 1)

Distributions(n) == {d \in [0 .. n - 1 -> 0 .. n] : SumTo(d, n - 1) = n}

\* dist.as_numpy_array(Direction.get_number_from_direction, num_actions):
\* the dense vector whose entry i (0-based) is the mass of action number i.
dist_to_numpy(dist, num_actions) == [i \in 1 .. num_actions |-> dist[i - 1]]

RECURSIVE SqNorm(_, _, _)
SqNorm(a, b, n) ==
    IF n = 0 THEN 0
    ELSE (a[n] - b[n]) * (a[n] - b[n]) + SqNorm(a, b, n - 1)

\* The comparison of line 91 with >= for >.
DiffersAtOrAbove(action_dist, dist, threshold) ==
    LET n == Len(dist)
    IN \/ threshold.num <= 0
       \/ SqNorm(action_dist, dist, n) * threshold.den * threshold.den
              >= threshold.num * threshold.num * n * n

\* The comparison of line 91 with < for >.
DiffersBelow(action_dist, dist, threshold) ==
    LET n == Len(dist)
    IN /\ threshold.num > 0
       /\ SqNorm(action_dist, dist, n) * threshold.den * threshold.den
              < threshold.num * threshold.num * n * n

\* line 91: np.linalg.norm(action_dist - dist) > threshold.  The norm is
\* sqrt(SqNorm)/n and never negative, so it exceeds a negative threshold;
\* otherwise the squares are compared.
Differs(action_dist, dist, threshold) ==
    LET n == Len(dist)
    IN \/ threshold.num < 0
       \/ SqNorm(action_dist, dist, n) * threshold.den * threshold.den
              > threshold.num * threshold.num * n * n

\* mdp.convert_to_numpy_input(): the walls and rewards arrays of this MDP.
Walls(mdp) == [kind |-> "walls", mdp |-> mdp.id, shape |-> <<mdp.imsize, mdp.imsize>>]

Rewards(mdp) == [kind |-> "rewards", mdp |-> mdp.id, shape |-> <<mdp.imsize, mdp.imsize>>]

\* ------------------------------------------------------------------ state
VARIABLES
    heap,       \* the agent objects, by reference: [cls, params, mdp, policy],
                \* policy the answers given since the last set_mdp
    lists,      \* the list objects: list id -> <<agent references>>
    fs,         \* the files on disk: a set of [name, archive]
    mdpCount,   \* MDPs generated so far; an MDP's id is its rank
    top,        \* the client's current API call and what it got back
    script,     \* the API calls the client has still to make
    fr,         \* the frames of the running call: irl, gd, nex, ex
    printed,    \* the last fraction_different printed, as [num, den]
    lastQuery,  \* the last get_action_distribution: who, bound to what, for which MDP
    lastSaved   \* the last np.savez: the name given and the arrays passed

vars == <<heap, lists, fs, mdpCount, top, script, fr, printed, lastQuery, lastSaved>>

\* The list objects that exist: each function's default `other_agents=[]`
\* (built once, at def time), the list generate_gridworld_irl builds, and the
\* list a client passes.
ExDefault == "generate_example.other_agents"

NexDefault == "generate_n_examples.other_agents"

GdDefault == "generate_gridworld_data.other_agents"

ClientList == "client"

DefaultLists == {ExDefault, NexDefault, GdDefault}

IrlList == "generate_gridworld_irl.other_agents"

ListIds == DefaultLists \cup {IrlList, ClientList}

\* other_agents of generate_gridworld_irl as a parameter with a default list.
IrlOtherAgentsShared == GdDefault

\* line 137, `other_agents = []`: a list this call builds for itself.
IrlOtherAgents == IrlList

Idle == [pc |-> "idle"]

IdleFrames == [irl |-> Idle, gd |-> Idle, nex |-> Idle, ex |-> Idle]

NoValue == [kind |-> "none"]

Tuple(items) == [kind |-> "tuple", items |-> items]

CanCall(op) ==
    /\ top.status \in {"idle", "returned", "raised"}
    /\ script # <<>>
    /\ Head(script) = op

\* A call begins: the previous call's result is dropped.
Begin(op, args) ==
    [op |-> op, status |-> "running", exc |-> NoneValue, ret |-> NoValue,
     args |-> args, mdp0 |-> mdpCount, heap0 |-> heap, fs0 |-> fs]

\* An exception nothing catches: every frame is gone, the client sees it.
Raise(e) ==
    /\ fr' = IdleFrames
    /\ top' = [top EXCEPT !.status = "raised", !.exc = e]

\* The bindings of all agents, for comparing before and after.
Bindings(h) == [i \in 1 .. Len(h) |-> h[i].mdp]

\* ------------------------------------------------------- generate_example
\* The frame of a call generate_example(expected_length, agent, config, other_agents).
NewEx(caller, expected_length, agent, config, others) ==
    [pc |-> "assert", caller |-> caller, expected_length |-> expected_length,
     agent |-> agent, config |-> config, others |-> others,
     mdp |-> [id |-> 0], minibatches |-> <<>>, oi |-> 1, mi |-> 1, count |-> 0,
     num_different |-> <<>>, gen |-> 0, bound0 |-> Bindings(heap)]

\* line 57 as it would read with the comparison turned round.
AssertHoldsReversed(n_others, expected_length) == n_others >= expected_length

\* line 57: assert len(other_agents) <= expected_length
AssertHolds(n_others, expected_length) == n_others <= expected_length

ExAssert ==
    /\ fr.ex.pc = "assert"
    /\ IF AssertHolds(Len(lists[fr.ex.others]), fr.ex.expected_length)
       THEN /\ fr' = [fr EXCEPT !.ex.pc = "generate"]
            /\ top' = top
       ELSE Raise("AssertionError")
    /\ UNCHANGED <<heap, lists, fs, mdpCount, script, printed, lastQuery, lastSaved>>

\* A generator wrapped in a retry loop.
GenerateIsRetried == TRUE

\* lines 61-64: nothing catches a failure of the generator.
GenerateRetries == FALSE

\* lines 61-64: one call of the generator config.simple_mdp selects.
ExGenerate ==
    /\ fr.ex.pc = "generate"
    /\ \/ /\ mdpCount' = mdpCount + 1
          /\ fr' = [fr EXCEPT !.ex.pc = "set_mdp",
                              !.ex.gen = @ + 1,
                              !.ex.mdp = [id |-> mdpCount + 1,
                                          imsize |-> fr.ex.config.imsize,
                                          by |-> IF fr.ex.config.simple_mdp
                                                 THEN "generate_random"
                                                 ELSE "generate_random_connected"]]
          /\ top' = top
       \/ /\ mdpCount' = mdpCount
          /\ IF GenerateRetries /\ fr.ex.gen < 2
             THEN fr' = [fr EXCEPT !.ex.gen = @ + 1] /\ top' = top
             ELSE Raise("GenerationFailure")
    /\ UNCHANGED <<heap, lists, fs, script, printed, lastQuery, lastSaved>>

\* agent.set_mdp(mdp): the agent is bound to mdp and its old plan is gone.
SetMdp(h, a, mdp) == [h EXCEPT ![a].mdp = mdp.id, ![a].policy = {}]

\* The pc after the batch loop of line 75 has run `done` of its rounds.
AfterBatch(done, expected_length) ==
    IF done < expected_length THEN "minibatch" ELSE "different"

\* line 74
ExSetMdp ==
    /\ fr.ex.pc = "set_mdp"
    /\ \/ /\ heap' = SetMdp(heap, fr.ex.agent, fr.ex.mdp)
          /\ fr' = [fr EXCEPT !.ex.pc = AfterBatch(0, fr.ex.expected_length)]
          /\ top' = top
       \/ /\ heap' = heap
          /\ Raise("AgentFailure")
    /\ UNCHANGED <<lists, fs, mdpCount, script, printed, lastQuery, lastSaved>>

\* agent.get_action_distribution(state) may answer d: a state it has answered
\* for since its last set_mdp gets the same answer again.
Answers(h, a, state, d) ==
    \A e \in h[a].policy : e.state = state => e.dist = d

Remember(h, a, state, d) ==
    [h EXCEPT ![a].policy = @ \cup {[state |-> state, dist |-> d]}]

Query(h, a, mdp) == [agent |-> a, bound |-> h[a].mdp, mdp |-> mdp.id]

\* lines 69-72 and one round of line 75
ExGetMinibatch ==
    /\ fr.ex.pc = "minibatch"
    /\ \/ \E state \in Cells(fr.ex.mdp.imsize),
             d \in Distributions(fr.ex.config.num_actions) :
            /\ Answers(heap, fr.ex.agent, state, d)
            /\ heap' = Remember(heap, fr.ex.agent, state, d)
            /\ lastQuery' = Query(heap, fr.ex.agent, fr.ex.mdp)
            /\ LET batch == Append(fr.ex.minibatches,
                                   [state |-> state,
                                    action_dist |->
                                        dist_to_numpy(d, fr.ex.config.num_actions)])
               IN fr' = [fr EXCEPT !.ex.minibatches = batch,
                                   !.ex.pc = AfterBatch(Len(batch),
                                                        fr.ex.expected_length)]
            /\ top' = top
       \/ /\ UNCHANGED <<heap, lastQuery>>
          /\ Raise("AgentFailure")
    /\ UNCHANGED <<lists, fs, mdpCount, script, printed, lastSaved>>

\* Returning v from frame `from`: into the caller's frame, or to the client.
\* save_dataset's argument list is evaluated before np.savez is entered.
Deliver(f, from, caller, v) ==
    CASE caller = "nex" ->
           [f EXCEPT ![from] = Idle, !.nex.data = Append(@, v),
                     !.nex.i = @ + 1, !.nex.pc = "loop"]
      [] caller = "gd" /\ f.gd.pc = "wait_train" ->
           [f EXCEPT ![from] = Idle, !.gd.train = v, !.gd.pc = "test"]
      [] caller = "gd" /\ f.gd.pc = "wait_test" ->
           [f EXCEPT ![from] = Idle, !.gd.test = v, !.gd.pc = "return"]
      [] caller = "irl" /\ f.irl.pc = "wait_step1" ->
           [f EXCEPT ![from] = Idle, !.irl.step1_data = v, !.irl.pc = "step2"]
      [] caller = "irl" /\ f.irl.pc = "wait_step2" ->
           [f EXCEPT ![from] = Idle, !.irl.step2_data = v, !.irl.pc = "return"]
      [] OTHER -> [f EXCEPT ![from] = Idle]

Return(from, caller, v) ==
    /\ fr' = Deliver(fr, from, caller, v)
    /\ top' = IF caller # "top" THEN top
              ELSE IF top.op = "save_dataset"
                   THEN [top EXCEPT !.status = "savez", !.ret = Tuple(v)]
                   ELSE [top EXCEPT !.status = "returned", !.ret = Tuple(v)]

\* calculate_different without its line 83.
OtherSetMdpSkipped(h, o, mdp) == h

\* line 83: other_agent.set_mdp(mdp)
OtherSetMdp(h, o, mdp) == SetMdp(h, o, mdp)

\* One comparator is done: its count joins num_different (line 94).
NextComparator(ex, count) ==
    [ex EXCEPT !.num_different = Append(@, count), !.oi = @ + 1,
               !.mi = 1, !.count = 0, !.pc = "different"]

\* line 83, for comparator number oi of other_agents
ExOtherSetMdp ==
    /\ fr.ex.pc = "different"
    /\ fr.ex.oi <= Len(lists[fr.ex.others])
    /\ \/ /\ heap' = OtherSetMdp(heap, lists[fr.ex.others][fr.ex.oi], fr.ex.mdp)
          /\ fr' = [fr EXCEPT !.ex = IF fr.ex.minibatches = <<>>
                                     THEN NextComparator(fr.ex, 0)
                                     ELSE [fr.ex EXCEPT !.pc = "differs"]]
          /\ top' = top
       \/ /\ heap' = heap
          /\ Raise("AgentFailure")
    /\ UNCHANGED <<lists, fs, mdpCount, script, printed, lastQuery, lastSaved>>

\* line 85: the comparator is asked about s, the state of the minibatch.
DiffersState(minibatch) == minibatch.state

\* lines 84-92: differs(s, a) for minibatch number mi, added to the sum
ExDiffers ==
    /\ fr.ex.pc = "differs"
    /\ LET o == lists[fr.ex.others][fr.ex.oi]
           m == fr.ex.minibatches[fr.ex.mi]
           s == DiffersState(m)
       IN \/ \E d \in Distributions(fr.ex.config.num_actions) :
               /\ Answers(heap, o, s, d)
               /\ heap' = Remember(heap, o, s, d)
               /\ lastQuery' = Query(heap, o, fr.ex.mdp)
               /\ LET count == fr.ex.count +
                               (IF Differs(m.action_dist,
                                           dist_to_numpy(d, fr.ex.config.num_actions),
                                           fr.ex.config.action_distance_threshold)
                                THEN 1 ELSE 0)
                  IN fr' = [fr EXCEPT !.ex =
                               IF fr.ex.mi = Len(fr.ex.minibatches)
                               THEN NextComparator(fr.ex, count)
                               ELSE [fr.ex EXCEPT !.count = count, !.mi = @ + 1]]
               /\ top' = top
          \/ /\ UNCHANGED <<heap, lastQuery>>
             /\ Raise("AgentFailure")
    /\ UNCHANGED <<lists, fs, mdpCount, script, printed, lastSaved>>

\* lines 95-99: the six values generate_example returns.
ExResult(ex) ==
    <<Walls(ex.mdp), Rewards(ex.mdp),
      [i \in 1 .. Len(ex.minibatches) |-> ex.minibatches[i].state[2]],
      [i \in 1 .. Len(ex.minibatches) |-> ex.minibatches[i].state[1]],
      [i \in 1 .. Len(ex.minibatches) |-> ex.minibatches[i].action_dist],
      ex.num_different>>

ExReturn ==
    /\ fr.ex.pc = "different"
    /\ fr.ex.oi > Len(lists[fr.ex.others])
    /\ Return("ex", fr.ex.caller, ExResult(fr.ex))
    /\ UNCHANGED <<heap, lists, fs, mdpCount, script, printed, lastQuery, lastSaved>>

\* ---------------------------------------------------- generate_n_examples
NewNex(caller, n, agent, config, others) ==
    [pc |-> "loop", caller |-> caller, n |-> n, i |-> 0, data |-> <<>>,
     agent |-> agent, config |-> config, others |-> others]

\* line 109: the next generate_example(size, agent, config, other_agents)
NexExample ==
    /\ fr.nex.pc = "loop"
    /\ fr.nex.i < fr.nex.n
    /\ fr' = [fr EXCEPT !.nex.pc = "wait",
                        !.ex = NewEx("nex", fr.nex.config.statebatchsize,
                                     fr.nex.agent, fr.nex.config, fr.nex.others)]
    /\ UNCHANGED <<heap, lists, fs, mdpCount, top, script, printed, lastQuery, lastSaved>>

\* zip(*data): one column per position of the tuples; no tuple, no column.
ZipStar(data) ==
    IF Len(data) = 0 THEN <<>>
    ELSE [j \in 1 .. Len(data[1]) |-> [i \in 1 .. Len(data) |-> data[i][j]]]

RECURSIVE SumColumn(_, _, _)
SumColumn(rows, c, upto) ==
    IF upto = 0 THEN 0 ELSE rows[upto][c] + SumColumn(rows, c, upto - 1)

\* line 112: np.sum(num_different, axis=0) * 1.0 / (n * size), per comparator
FractionDifferent(num_different, n, size) ==
    [num |-> [c \in 1 .. Len(num_different[1]) |->
                 SumColumn(num_different, c, Len(num_different))],
     den |-> n * size]

\* line 110: six names are bound to the columns of zip(*data).
Unpacks(columns) == Len(columns) = 6

\* lines 110-115
NexReturn ==
    /\ fr.nex.pc = "loop"
    /\ fr.nex.i = fr.nex.n
    /\ LET columns == ZipStar(fr.nex.data)
       IN IF ~Unpacks(columns)
          THEN Raise("ValueError: not enough values to unpack") /\ printed' = printed
          ELSE /\ printed' = FractionDifferent(columns[6], fr.nex.n,
                                                 fr.nex.config.statebatchsize)
               /\ Return("nex", fr.nex.caller, SubSeq(columns, 1, 5))
    /\ UNCHANGED <<heap, lists, fs, mdpCount, script, lastQuery, lastSaved>>

\* ------------------------------------------------ generate_gridworld_data
NewGd(caller, agent, config, others) ==
    [pc |-> "train", caller |-> caller, agent |-> agent, config |-> config,
     others |-> others, train |-> <<>>, test |-> <<>>]

\* line 121
GdTrain ==
    /\ fr.gd.pc = "train"
    /\ fr' = [fr EXCEPT !.gd.pc = "wait_train",
                        !.nex = NewNex("gd", fr.gd.config.num_train, fr.gd.agent,
                                       fr.gd.config, fr.gd.others)]
    /\ UNCHANGED <<heap, lists, fs, mdpCount, top, script, printed, lastQuery, lastSaved>>

\* line 123
GdTest ==
    /\ fr.gd.pc = "test"
    /\ fr' = [fr EXCEPT !.gd.pc = "wait_test",
                        !.nex = NewNex("gd", fr.gd.config.num_test, fr.gd.agent,
                                       fr.gd.config, fr.gd.others)]
    /\ UNCHANGED <<heap, lists, fs, mdpCount, top, script, printed, lastQuery, lastSaved>>

\* The ten arrays with the test phase first.
GdResultTestFirst(train, test) == test \o train

\* lines 124-125
GdResult(train, test) == train \o test

GdReturn ==
    /\ fr.gd.pc = "return"
    /\ Return("gd", fr.gd.caller, GdResult(fr.gd.train, fr.gd.test))
    /\ UNCHANGED <<heap, lists, fs, mdpCount, script, printed, lastQuery, lastSaved>>

\* ------------------------------------------------- generate_gridworld_irl
NewIrl(caller, config) ==
    [pc |-> "create_agent", caller |-> caller, config |-> config, agent |-> 0,
     others |-> IrlOtherAgents, step1_data |-> <<>>, step2_data |-> <<>>]

\* lines 133-136
IrlCreateAgent ==
    /\ fr.irl.pc = "create_agent"
    /\ LET made == CreateAgent(fr.irl.config.agent)
       IN IF made.raised
          THEN Raise("ValueError: Invalid agent") /\ heap' = heap
          ELSE /\ heap' = Append(heap, NewAgent(made.cls, "config"))
               /\ fr' = [fr EXCEPT !.irl.agent = Len(heap) + 1,
                                   !.irl.pc = "other_agents"]
               /\ top' = top
    /\ UNCHANGED <<lists, fs, mdpCount, script, printed, lastQuery, lastSaved>>

\* lines 137-143
IrlCreateOther ==
    /\ fr.irl.pc = "other_agents"
    /\ IF fr.irl.config.other_agent = NoneValue
       THEN /\ fr' = [fr EXCEPT !.irl.pc = "step1"]
            /\ UNCHANGED <<heap, lists, top>>
       ELSE LET made == CreateAgent(fr.irl.config.other_agent)
            IN IF made.raised
               THEN Raise("ValueError: Invalid agent") /\ UNCHANGED <<heap, lists>>
               ELSE /\ heap' = Append(heap, NewAgent(made.cls, "config.other"))
                    /\ lists' = [lists EXCEPT ![fr.irl.others] =
                                                  Append(@, Len(heap) + 1)]
                    /\ fr' = [fr EXCEPT !.irl.pc = "step1"]
                    /\ top' = top
    /\ UNCHANGED <<fs, mdpCount, script, printed, lastQuery, lastSaved>>

\* line 145
IrlStep1 ==
    /\ fr.irl.pc = "step1"
    /\ fr' = [fr EXCEPT !.irl.pc = "wait_step1",
                        !.gd = NewGd("irl", fr.irl.agent, fr.irl.config, fr.irl.others)]
    /\ UNCHANGED <<heap, lists, fs, mdpCount, top, script, printed, lastQuery, lastSaved>>

\* lines 146-148
IrlStep2 ==
    /\ fr.irl.pc = "step2"
    /\ fr' = [fr EXCEPT !.irl.pc = "wait_step2",
                        !.nex = NewNex("irl", fr.irl.config.num_mdps, fr.irl.agent,
                                       fr.irl.config, fr.irl.others)]
    /\ UNCHANGED <<heap, lists, fs, mdpCount, top, script, printed, lastQuery, lastSaved>>

\* line 149
IrlResult(step1_data, step2_data) == step1_data \o step2_data

IrlReturn ==
    /\ fr.irl.pc = "return"
    /\ Return("irl", fr.irl.caller, IrlResult(fr.irl.step1_data, fr.irl.step2_data))
    /\ UNCHANGED <<heap, lists, fs, mdpCount, script, printed, lastQuery, lastSaved>>

\* ------------------------------------------- save_dataset and load_dataset
NumArrays == 15

NpzSuffix == ".npz"

\* A file name is the sequence of its parts: <<"data">>, <<"data", ".npz">>.
Filenames == {<<"data">>, <<"data", NpzSuffix>>}

\* np.savez appends ".npz" to a name that does not end with it.
SavezName(filename) ==
    IF filename[Len(filename)] = NpzSuffix THEN filename
    ELSE Append(filename, NpzSuffix)

\* np.savez(file, *args): positional array number i is stored as arr_i,
\* here under the key i.
Savez(args) == [i \in 0 .. Len(args) - 1 |-> args[i + 1]]

WriteFile(files, name, archive) ==
    {f \in files : f.name # name} \cup {[name |-> name, archive |-> archive]}

Exists(files, name) == \E f \in files : f.name = name

ReadFile(files, name) == (CHOOSE f \in files : f.name = name).archive

\* line 181, once generate_gridworld_irl(config) has returned its arrays
SaveDatasetWrite ==
    /\ top.status = "savez"
    /\ fs' = WriteFile(fs, SavezName(top.args.filename), Savez(top.ret.items))
    /\ lastSaved' = [kind |-> "saved", filename |-> top.args.filename,
                     arrays |-> top.ret.items]
    /\ top' = [top EXCEPT !.status = "returned", !.ret = NoValue]
    /\ UNCHANGED <<heap, lists, mdpCount, script, fr, printed, lastQuery>>

\* line 189: [data['arr_{}'.format(i)] for i in range(15)]
Loaded(data) == [i \in 1 .. NumArrays |-> data[i - 1]]

\* ------------------------------------------------------------- the client
Threshold(num, den) == [num |-> num, den |-> den]

\* line 202: the default --action_distance_threshold, 0.5
DefaultThreshold == Threshold(1, 2)

Thresholds == {Threshold(n, 2) : n \in -1 .. 3}

Config(agent, other_agent, num_train, num_test, num_mdps, statebatchsize, imsize, num_actions, threshold, simple_mdp) ==
    [agent |-> agent, other_agent |-> other_agent, num_train |-> num_train,
     num_test |-> num_test, num_mdps |-> num_mdps,
     statebatchsize |-> statebatchsize, imsize |-> imsize,
     num_actions |-> num_actions, action_distance_threshold |-> threshold,
     simple_mdp |-> simple_mdp]

\* The configurations whole datasets are generated from: a 1 x 1 grid and one
\* action, so that an example's content is decided by its MDP alone.
IrlConfigs ==
    {Config(a, o, tr, te, m, k, 1, 1, DefaultThreshold, FALSE) :
        a \in {"optimal", "random"}, o \in {NoneValue, "myopic", "random"},
        tr \in 0 .. MaxExamples, te \in 0 .. MaxExamples, m \in 0 .. MaxExamples,
        k \in 0 .. MaxStateBatch}

\* The configurations of the client's own calls of the generators.
DataConfigs ==
    {Config("optimal", NoneValue, tr, te, 0, k, 1, 1, DefaultThreshold, TRUE) :
        tr \in 0 .. MaxExamples, te \in 0 .. MaxExamples, k \in 0 .. MaxStateBatch}

\* What the client passes as other_agents: nothing, or a list of agents of
\* its own other than `agent`.
OtherChoices(agent, n_agents) ==
    {[given |-> FALSE, list |-> <<>>], [given |-> TRUE, list |-> <<>>]}
    \cup {[given |-> TRUE, list |-> <<b>>] : b \in (1 .. n_agents) \ {agent}}

ListRef(choice, default) == IF choice.given THEN ClientList ELSE default

\* The arguments reach the callee: the client's list, when one is given, is
\* the list object the callee sees.
Pass(choice) == [lists EXCEPT ![ClientList] = IF choice.given THEN choice.list ELSE @]

Scripts ==
    {<<"save_dataset", "load_dataset">>,
     <<"generate_gridworld_irl", "create_agent", "generate_example">>,
     <<"create_agent", "create_agent", "generate_gridworld_data">>,
     <<"create_agent", "create_agent", "generate_example", "generate_n_examples">>}

Init ==
    /\ heap = <<>>
    /\ lists = [l \in ListIds |-> <<>>]
    /\ fs = {}
    /\ mdpCount = 0
    /\ top = [op |-> "none", status |-> "idle", exc |-> NoneValue, ret |-> NoValue]
    /\ script \in Scripts
    /\ fr = IdleFrames
    /\ printed = NoValue
    /\ lastQuery = [agent |-> 0, bound |-> 0, mdp |-> 0]
    /\ lastSaved = NoValue

CallCreateAgent ==
    /\ CanCall("create_agent")
    /\ \E label \in AgentLabels :
         LET made == CreateAgent(label)
             call == Begin("create_agent", [label |-> label])
         IN IF made.raised
            THEN /\ top' = [call EXCEPT !.status = "raised",
                                        !.exc = "ValueError: Invalid agent"]
                 /\ heap' = heap
            ELSE /\ heap' = Append(heap, NewAgent(made.cls, "client"))
                 /\ top' = [call EXCEPT !.status = "returned",
                                        !.ret = [kind |-> "agent",
                                                 ref |-> Len(heap) + 1]]
    /\ script' = Tail(script)
    /\ UNCHANGED <<lists, fs, mdpCount, fr, printed, lastQuery, lastSaved>>

CallGenerateExample ==
    /\ CanCall("generate_example")
    /\ \E agent \in 1 .. Len(heap), k \in 0 .. MaxStateBatch :
         \E choice \in OtherChoices(agent, Len(heap)) :
           LET config == Config("optimal", NoneValue, 0, 0, 0, k, 1, 1,
                                DefaultThreshold, TRUE)
           IN /\ top' = Begin("generate_example",
                              [expected_length |-> k, agent |-> agent,
                               config |-> config, other |-> choice])
              /\ lists' = Pass(choice)
              /\ fr' = [fr EXCEPT !.ex = NewEx("top", k, agent, config,
                                               ListRef(choice, ExDefault))]
    /\ script' = Tail(script)
    /\ UNCHANGED <<heap, fs, mdpCount, printed, lastQuery, lastSaved>>

CallGenerateNExamples ==
    /\ CanCall("generate_n_examples")
    /\ \E agent \in 1 .. Len(heap), config \in DataConfigs :
         \E choice \in OtherChoices(agent, Len(heap)) :
           /\ config.num_test = 0
           /\ top' = Begin("generate_n_examples",
                           [agent |-> agent, config |-> config, other |-> choice,
                            n |-> config.num_train])
           /\ lists' = Pass(choice)
           /\ fr' = [fr EXCEPT !.nex = NewNex("top", config.num_train, agent, config,
                                              ListRef(choice, NexDefault))]
    /\ script' = Tail(script)
    /\ UNCHANGED <<heap, fs, mdpCount, printed, lastQuery, lastSaved>>

CallGenerateGridworldData ==
    /\ CanCall("generate_gridworld_data")
    /\ \E agent \in 1 .. Len(heap), config \in DataConfigs :
         \E choice \in OtherChoices(agent, Len(heap)) :
           /\ top' = Begin("generate_gridworld_data",
                           [agent |-> agent, config |-> config, other |-> choice])
           /\ lists' = Pass(choice)
           /\ fr' = [fr EXCEPT !.gd = NewGd("top", agent, config,
                                            ListRef(choice, GdDefault))]
    /\ script' = Tail(script)
    /\ UNCHANGED <<heap, fs, mdpCount, printed, lastQuery, lastSaved>>

\* A call of generate_gridworld_irl starts with a list object of its own.
FreshIrlList == [lists EXCEPT ![IrlList] = <<>>]

CallGenerateGridworldIrl ==
    /\ CanCall("generate_gridworld_irl")
    /\ \E config \in IrlConfigs :
         /\ top' = Begin("generate_gridworld_irl", [config |-> config])
         /\ fr' = [fr EXCEPT !.irl = NewIrl("top", config)]
    /\ lists' = FreshIrlList
    /\ script' = Tail(script)
    /\ UNCHANGED <<heap, fs, mdpCount, printed, lastQuery, lastSaved>>

\* line 181: the arguments of np.savez are evaluated first.
CallSaveDataset ==
    /\ CanCall("save_dataset")
    /\ \E config \in IrlConfigs, filename \in Filenames :
         /\ top' = Begin("save_dataset", [config |-> config, filename |-> filename])
         /\ fr' = [fr EXCEPT !.irl = NewIrl("top", config)]
    /\ lists' = FreshIrlList
    /\ script' = Tail(script)
    /\ UNCHANGED <<heap, fs, mdpCount, printed, lastQuery, lastSaved>>

\* lines 183-189
CallLoadDataset ==
    /\ CanCall("load_dataset")
    /\ \E filename \in Filenames :
         LET call == Begin("load_dataset", [filename |-> filename])
         IN top' = IF ~Exists(fs, filename)
                   THEN [call EXCEPT !.status = "raised", !.exc = "FileNotFoundError"]
                   ELSE IF \E i \in 0 .. NumArrays - 1 :
                              i \notin DOMAIN ReadFile(fs, filename)
                        THEN [call EXCEPT !.status = "raised", !.exc = "KeyError"]
                        ELSE [call EXCEPT !.status = "returned",
                                          !.ret = Tuple(Loaded(ReadFile(fs, filename)))]
    /\ script' = Tail(script)
    /\ UNCHANGED <<heap, lists, fs, mdpCount, fr, printed, lastQuery, lastSaved>>

Example ==
    \/ ExAssert
    \/ ExGenerate
    \/ ExSetMdp
    \/ ExGetMinibatch
    \/ ExOtherSetMdp
    \/ ExDiffers
    \/ ExReturn

Next ==
    \/ CallCreateAgent
    \/ CallGenerateExample
    \/ CallGenerateNExamples
    \/ CallGenerateGridworldData
    \/ CallGenerateGridworldIrl
    \/ CallSaveDataset
    \/ CallLoadDataset
    \/ Example
    \/ NexExample
    \/ NexReturn
    \/ GdTrain
    \/ GdTest
    \/ GdReturn
    \/ IrlCreateAgent
    \/ IrlCreateOther
    \/ IrlStep1
    \/ IrlStep2
    \/ IrlReturn
    \/ SaveDatasetWrite

Spec == Init /\ [][Next]_vars

\* ------------------------------------------ one call of generate_example
\* generate_example on its own, on grids and action sets large enough for
\* two agents to disagree: the client holds three agents, bound or not to
\* an MDP generated earlier, and makes one call.
ClientAgents(bound) ==
    [i \in 1 .. 3 |-> [NewAgent(AgentClass(<<"optimal", "myopic", "naive">>[i]),
                                "client") EXCEPT !.mdp = bound[i]]]

ExampleCalls ==
    {[expected_length |-> k, agent |-> 1, other |-> o,
      config |-> Config("optimal", NoneValue, 0, 0, 0, k, 1, 2, t, s)] :
        k \in 0 .. MaxLength, t \in Thresholds, s \in BOOLEAN,
        o \in {[given |-> FALSE, list |-> <<>>], [given |-> TRUE, list |-> <<>>],
               [given |-> TRUE, list |-> <<2>>], [given |-> TRUE, list |-> <<2, 3>>]}}
    \cup
    {[expected_length |-> k, agent |-> 1, other |-> [given |-> TRUE, list |-> <<2>>],
      config |-> Config("optimal", NoneValue, 0, 0, 0, k, 2, 2, DefaultThreshold, FALSE)] :
        k \in 0 .. MaxLength}

InitExample ==
    /\ \E bound \in {<<0, 0, 0>>, <<1, 1, 0>>} : heap = ClientAgents(bound)
    /\ fs = {}
    /\ mdpCount = 1
    /\ script = <<>>
    /\ printed = NoValue
    /\ lastQuery = [agent |-> 0, bound |-> 0, mdp |-> 0]
    /\ lastSaved = NoValue
    /\ \E call \in ExampleCalls :
         /\ lists = [l \in ListIds |->
                        IF l = ClientList /\ call.other.given
                        THEN call.other.list ELSE <<>>]
         /\ top = Begin("generate_example", call)
         /\ fr = [IdleFrames EXCEPT !.ex =
                      NewEx("top", call.expected_length, call.agent, call.config,
                            ListRef(call.other, ExDefault))]

NextExample ==
    \/ ExAssert
    \/ ExGenerate
    \/ ExSetMdp
    \/ ExGetMinibatch
    \/ ExOtherSetMdp
    \/ ExDiffers
    \/ ExReturn

SpecExample == InitExample /\ [][NextExample]_vars


\* ------------------------------------------------------------- the claims
\* What agent `a` answered for `state` since its last set_mdp.
AnswerOf(a, state) == (CHOOSE e \in heap[a].policy : e.state = state).dist

AnsweredStates(a) == {e.state : e \in heap[a].policy}

\* The distance between two vectors over n actions is strictly greater than
\* the threshold.
FartherThan(a, b, threshold) ==
    LET n == Len(a)
        sq == SqNorm(a, b, n)
    IN IF threshold.num < 0 THEN TRUE
       ELSE sq * threshold.den * threshold.den > threshold.num * threshold.num * n * n

\* The batch of a generate_example call: in its frame while it runs, in the
\* returned tuple afterwards (x from the fourth array, y from the third).
ExampleEnded == top.op = "generate_example" /\ top.status = "returned"

ComparatorsDone ==
    IF fr.ex.pc = "different" THEN Len(fr.ex.num_different)
    ELSE IF ExampleEnded /\ fr.ex.pc = "idle" THEN Len(top.ret.items[6])
    ELSE 0

BatchOf ==
    IF fr.ex.pc = "different"
    THEN [states |-> [j \in 1 .. Len(fr.ex.minibatches) |-> fr.ex.minibatches[j].state],
          labels |-> [j \in 1 .. Len(fr.ex.minibatches) |->
                         fr.ex.minibatches[j].action_dist],
          num_different |-> fr.ex.num_different,
          agent |-> fr.ex.agent, others |-> lists[fr.ex.others],
          config |-> fr.ex.config, expected_length |-> fr.ex.expected_length]
    ELSE [states |-> [j \in 1 .. Len(top.ret.items[3]) |->
                         <<top.ret.items[4][j], top.ret.items[3][j]>>],
          labels |-> top.ret.items[5],
          num_different |-> top.ret.items[6],
          agent |-> top.args.agent, others |-> top.args.other.list,
          config |-> top.args.config, expected_length |-> top.args.expected_length]

\* C4: a generate_example call with more comparators than expected_length
\* fails at entry with the assertion error: no MDP is generated, no state is
\* sampled, no agent is asked anything, and every agent is bound as before.
C4_TooManyComparatorsFailAtEntry ==
    (top.op = "generate_example"
        /\ Len(top.args.other.list) > top.args.expected_length)
    => /\ fr.ex.pc \in {"assert", "idle"}
       /\ fr.ex.pc = "assert" => fr.ex.minibatches = <<>> /\ fr.ex.gen = 0
       /\ fr.ex.pc = "idle" => top.status = "raised" /\ top.exc = "AssertionError"
       /\ mdpCount = top.mdp0
       /\ heap = top.heap0
       /\ lastQuery.agent = 0

C4_Witness ==
    /\ top.op = "generate_example"
    /\ Len(top.args.other.list) = 2
    /\ top.args.expected_length = 1
    /\ top.status = "raised"
    /\ heap[1].mdp = 1
    /\ heap[2].mdp = 1

\* C5: for each comparator i that has been evaluated, num_different[i] is the
\* number of positions of the batch at which the primary agent's label and
\* the comparator's answer for the state sampled there are farther apart
\* than the threshold; the comparator has been asked about exactly the
\* sampled states, the labels are the primary agent's answers, and the count
\* lies in 0 .. expected_length.
C5_CountsPositionsFartherThanThreshold ==
    \A i \in 1 .. ComparatorsDone :
        LET b == BatchOf
            o == b.others[i]
            n == b.config.num_actions
            positions == 1 .. Len(b.states)
        IN /\ Len(b.states) = b.expected_length
           /\ Len(b.labels) = b.expected_length
           /\ AnsweredStates(o) = {b.states[j] : j \in positions}
           /\ AnsweredStates(b.agent) = {b.states[j] : j \in positions}
           /\ \A j \in positions :
                 b.labels[j] = dist_to_numpy(AnswerOf(b.agent, b.states[j]), n)
           /\ b.num_different[i] =
                 Cardinality({j \in positions :
                     FartherThan(b.labels[j],
                                 dist_to_numpy(AnswerOf(o, b.states[j]), n),
                                 b.config.action_distance_threshold)})
           /\ b.num_different[i] \in 0 .. b.expected_length

\* One state, off the diagonal of the grid, sampled twice and disagreed on:
\* it counts twice.
C5_Witness ==
    /\ ExampleEnded
    /\ Len(top.ret.items[3]) = 2
    /\ top.ret.items[3][1] # top.ret.items[4][1]
    /\ top.ret.items[3][1] = top.ret.items[3][2]
    /\ top.ret.items[4][1] = top.ret.items[4][2]
    /\ top.ret.items[6] = <<2>>

\* C6: a comparator that answers, for every sampled state, what the primary
\* agent answered there is counted 0 times whenever the threshold is > 0.
SameAnswers(b, o) ==
    /\ AnsweredStates(o) = {b.states[j] : j \in 1 .. Len(b.states)}
    /\ \A j \in 1 .. Len(b.states) :
          dist_to_numpy(AnswerOf(o, b.states[j]), b.config.num_actions) = b.labels[j]

C6_SameAnswersCountZero ==
    \A i \in 1 .. ComparatorsDone :
        LET b == BatchOf
        IN (b.config.action_distance_threshold.num > 0
               /\ b.others[i] # b.agent
               /\ SameAnswers(b, b.others[i]))
           => b.num_different[i] = 0

C6_Witness ==
    /\ ExampleEnded
    /\ Len(top.ret.items[6]) = 2
    /\ Len(top.ret.items[3]) = 2
    /\ top.args.config.action_distance_threshold.num = 1
    /\ SameAnswers(BatchOf, 2)
    /\ ~SameAnswers(BatchOf, 3)
    /\ top.ret.items[6] = <<0, 2>>

\* A run of generate_gridworld_irl has handed back its arrays: to the client,
\* or to save_dataset, which is about to enter np.savez.
IrlEnded ==
    \/ top.op = "generate_gridworld_irl" /\ top.status = "returned"
    \/ top.op = "save_dataset" /\ top.status = "savez"

PhaseCounts(config) == <<config.num_train, config.num_test, config.num_mdps>>

\* The MDPs of a successful run are generated in phase order, one per example.
MdpsBefore(config, phase) ==
    IF phase = 1 THEN 0
    ELSE IF phase = 2 THEN config.num_train
    ELSE config.num_train + config.num_test

\* C1: a successful generate_gridworld_irl returns 15 arrays; for phase p of
\* train, test, generalization, positions 5(p-1)+1 .. 5(p-1)+5 hold the walls,
\* rewards, y, x and labels of that phase's examples, as many as the phase's
\* count, each built from the MDPs generated for that phase, in order.
C1_FifteenArraysInPhaseOrder ==
    IrlEnded =>
        LET config == top.args.config
            arrays == top.ret.items
            k == config.statebatchsize
        IN /\ Len(arrays) = 15
           /\ \A p \in 1 .. 3 :
                LET n == PhaseCounts(config)[p]
                    first == top.mdp0 + MdpsBefore(config, p)
                    at == 5 * (p - 1)
                    mdp(i) == [id |-> first + i, imsize |-> config.imsize]
                IN /\ arrays[at + 1] = [i \in 1 .. n |-> Walls(mdp(i))]
                   /\ arrays[at + 2] = [i \in 1 .. n |-> Rewards(mdp(i))]
                   /\ \A j \in 3 .. 5 :
                        /\ Len(arrays[at + j]) = n
                        /\ \A i \in 1 .. n : Len(arrays[at + j][i]) = k
                   /\ \A i \in 1 .. n : \A b \in 1 .. k :
                        /\ arrays[at + 3][i][b] \in 0 .. config.imsize - 1
                        /\ arrays[at + 4][i][b] \in 0 .. config.imsize - 1
                        /\ Len(arrays[at + 5][i][b]) = config.num_actions

C1_Witness ==
    /\ IrlEnded
    /\ PhaseCounts(top.args.config) = <<2, 1, 1>>
    /\ top.args.config.statebatchsize = 1
    /\ top.args.config.other_agent = "myopic"

ExampleFailures == {"AssertionError", "GenerationFailure", "AgentFailure"}

\* C2: a call generate_n_examples(n, ...) none of whose examples fails
\* returns five arrays of leading dimension n, the third to fifth of second
\* dimension k = config.statebatchsize; n = 0 included.
C2_FiveArraysOfLeadingDimensionN ==
    (top.op = "generate_n_examples"
        /\ top.status \in {"returned", "raised"}
        /\ top.exc \notin ExampleFailures)
    => /\ top.status = "returned"
       /\ Len(top.ret.items) = 5
       /\ \A j \in 1 .. 5 : Len(top.ret.items[j]) = top.args.n
       /\ \A j \in 3 .. 5 : \A i \in 1 .. top.args.n :
             Len(top.ret.items[j][i]) = top.args.config.statebatchsize

InvalidAgentError == "ValueError: Invalid agent"

InvalidConfig(config) ==
    \/ config.agent \notin ValidKinds
    \/ config.other_agent # NoneValue /\ config.other_agent \notin ValidKinds

\* C3: create_agent with a label other than the four kinds raises the
\* invalid-agent error and builds no agent; generate_gridworld_irl given such
\* a label as config.agent or as a non-None config.other_agent raises it
\* before any MDP is generated and before any agent is bound, and returns
\* nothing.
C3_UnknownLabelIsFatal ==
    /\ (top.op = "create_agent" /\ top.args.label \notin ValidKinds)
       => /\ top.status = "raised"
          /\ top.exc = InvalidAgentError
          /\ top.ret = NoValue
          /\ heap = top.heap0
    /\ (top.op \in {"generate_gridworld_irl", "save_dataset"}
           /\ InvalidConfig(top.args.config))
       => /\ mdpCount = top.mdp0
          /\ fr.gd.pc = "idle" /\ fr.nex.pc = "idle" /\ fr.ex.pc = "idle"
          /\ \A i \in 1 .. Len(heap) :
                heap[i].mdp = IF i <= Len(top.heap0) THEN top.heap0[i].mdp ELSE 0
          /\ top.status \in {"running", "raised"}
          /\ top.ret = NoValue
          /\ fs = top.fs0
          /\ top.status = "raised" => top.exc = InvalidAgentError
          /\ fr.irl.pc \in {"idle", "create_agent", "other_agents"}

\* The primary agent has been built when the comparator's label is refused.
C3_Witness ==
    /\ top.op = "generate_gridworld_irl"
    /\ top.args.config.agent = "optimal"
    /\ top.args.config.other_agent = "random"
    /\ top.status = "raised"
    /\ Len(heap) = Len(top.heap0) + 1

\* C7: once save_dataset(config, filename) has stored its arrays,
\* load_dataset(filename), with the same filename, returns those 15 arrays in
\* the order they were passed to np.savez.
C7_LoadReturnsWhatWasSaved ==
    (top.op = "load_dataset"
        /\ lastSaved # NoValue
        /\ top.args.filename = lastSaved.filename)
    => /\ top.status = "returned"
       /\ top.ret = Tuple(lastSaved.arrays)
       /\ Len(top.ret.items) = NumArrays

\* C8: every get_action_distribution is put to an agent whose last set_mdp
\* bound it to the MDP of the example being generated.
C8_AskedWhileBoundToTheCurrentMdp ==
    /\ lastQuery.bound = lastQuery.mdp
    /\ lastQuery.agent # 0 => lastQuery.bound > 0
    /\ (fr.ex.pc # "idle" /\ fr.ex.minibatches # <<>>)
       => /\ lastQuery.mdp = fr.ex.mdp.id
          /\ heap[lastQuery.agent].mdp = fr.ex.mdp.id

\* The comparator of a run, asked in the generalization phase, having been
\* bound to earlier examples' MDPs before.
C8_Witness ==
    /\ top.op = "generate_gridworld_irl"
    /\ fr.irl.pc = "wait_step2"
    /\ fr.ex.pc = "different"
    /\ lastQuery.agent = fr.irl.agent + 1
    /\ lastQuery.mdp >= top.mdp0 + 3

DataOps ==
    {"generate_example", "generate_n_examples", "generate_gridworld_data",
     "generate_gridworld_irl", "save_dataset"}

ExamplesAsked ==
    LET config == top.args.config
    IN CASE top.op = "generate_example" -> 1
         [] top.op = "generate_n_examples" -> top.args.n
         [] top.op = "generate_gridworld_data" -> config.num_train + config.num_test
         [] OTHER -> config.num_train + config.num_test + config.num_mdps

\* C9: an example calls the MDP generator once and never again; a call that
\* succeeds has generated one MDP per example; a call in which an example
\* fails ends with that failure, returns nothing, and save_dataset has then
\* written no file.
C9_FailureIsSurfacedNotRetried ==
    /\ fr.ex.pc # "idle"
       => fr.ex.gen = IF fr.ex.pc \in {"assert", "generate"} THEN 0 ELSE 1
    /\ (top.op \in DataOps /\ top.status \in {"returned", "savez"})
       => mdpCount = top.mdp0 + ExamplesAsked
    /\ (top.op \in DataOps /\ top.status = "raised")
       => /\ top.ret = NoValue
          /\ fr = IdleFrames
          /\ fs = top.fs0
          /\ mdpCount <= top.mdp0 + ExamplesAsked
    /\ (top.op = "save_dataset" /\ top.status \in {"running", "savez"})
       => fs = top.fs0

\* The generator fails in the test phase, after the train phase went through.
C9_Witness ==
    /\ top.op = "save_dataset"
    /\ top.status = "raised"
    /\ top.exc = "GenerationFailure"
    /\ mdpCount = top.mdp0 + top.args.config.num_train + 1
    /\ top.args.config.num_test = 2
    /\ fs = {}

\* C10: the default comparator lists stay empty, a list the client passes and
\* the list generate_gridworld_irl builds are what they were when the
\* generators were entered, and a generate_example call without other_agents
\* returns a num_different of length 0.
C10_ComparatorListsAreNotChanged ==
    /\ \A d \in DefaultLists : lists[d] = <<>>
    /\ (top.op \in {"generate_example", "generate_n_examples", "generate_gridworld_data"}
           /\ top.args.other.given)
       => lists[ClientList] = top.args.other.list
    /\ fr.irl.pc \in {"step1", "wait_step1", "step2", "wait_step2", "return"}
       => lists[fr.irl.others] = IF fr.irl.config.other_agent = NoneValue THEN <<>>
                                 ELSE <<fr.irl.agent + 1>>
    /\ (ExampleEnded /\ ~top.args.other.given) => top.ret.items[6] = <<>>

\* After a run of generate_gridworld_irl with a comparator, a call of
\* generate_example without other_agents.
C10_Witness ==
    /\ ExampleEnded
    /\ ~top.args.other.given
    /\ top.args.expected_length = 1
    /\ Len(heap) = 3
    /\ heap[2].cls = "MyopicAgent"
    /\ heap[2].mdp = 3

====
